---- MODULE Spec2Model ----
(***************************************************************************)
(* Constrained evolutionary policy search of augmentai: the domain safety  *)
(* model (domains/), the rule enforcer (rules/), the policy sampler, the   *)
(* proxy evaluator and the evolutionary optimizer (search/).               *)
(*                                                                         *)
(* Numbers.  Parameter values and parameter limits are held in hundredths  *)
(* (Rotate.limit 15 is 1500, brightness_limit 0.1 is 10), probabilities in *)
(* percent (0.5 is 50), scores in thousandths (0.731 is 731).              *)
(***************************************************************************)
EXTENDS Integers, Sequences, FiniteSets, TLC

VARIABLES
    \* --- rule enforcement harness (SafetyValidator / RuleEnforcer) ---
    validator,      \* the SafetyValidator under use: [domain, strict]
    candidate,      \* the Policy handed to validate / enforce_policy
    safety,         \* SafetyResult of validate(candidate), or NoResult
    safety2,        \* SafetyResult of validate(safety.policy), or NoResult
    enforcement,    \* EnforcementResult of enforce_policy(candidate), or NoResult
    vphase,         \* position of the harness
    \* --- PolicyOptimizer.search ---
    config,         \* OptimizerConfig of the optimizer
    request,        \* the arguments of search: [domain, budget]
    rng,            \* state of sampler.rng
    hashseed,       \* string hash seed of the interpreter process
    phase,          \* position inside search
    loc,            \* the local variables of search
    evaluated,      \* history variable: every (policy, score) in evaluation order
    returned,       \* what search returned or raised, or NoResult
    run,            \* 1: first search, 2: the repeated search
    first,          \* result of the first search, once it is repeated
    \* --- PolicySampler, PolicyEvaluator and Transform called directly ---
    sampler,        \* the PolicySampler: [seed, rng, hashseed], or NoResult
    held,           \* the policies at hand: returned by the last sampler call
    outcome,        \* the last call: its arguments and what it returned or raised
    stage           \* position of the caller

evars == <<validator, candidate, safety, safety2, enforcement, vphase>>
svars == <<config, request, rng, hashseed, phase, loc, evaluated, returned, run, first>>
uvars == <<sampler, held, outcome, stage>>
vars == <<validator, candidate, safety, safety2, enforcement, vphase,
          config, request, rng, hashseed, phase, loc, evaluated, returned, run, first,
          sampler, held, outcome, stage>>

----------------------------------------------------------------------------
(* Bounds of the model *)

\* longest candidate policy handed to the validator
MaxLen == 2

----------------------------------------------------------------------------
(* Helpers on sequences *)

RECURSIVE Flatten(_)
Flatten(ss) == IF ss = <<>> THEN <<>> ELSE Head(ss) \o Flatten(Tail(ss))

Range(s) == {s[i] : i \in 1..Len(s)}

\* F on the value of x: the value is computed once for all its uses in F
Bind(x, F(_)) == F(x)

Min2(a, b) == IF a <= b THEN a ELSE b
Max2(a, b) == IF a >= b THEN a ELSE b

----------------------------------------------------------------------------
(* core/policy.py : Transform and Policy *)

TransformCategory ==
    {"geometric", "color", "blur", "noise", "distortion", "crop", "flip",
     "rotate", "scale", "other"}

\* One entry of Transform.parameters (a dict, kept in insertion order).
\* kind "scalar": an int/float, v = <<x>>; kind "list"/"tuple": a range value;
\* kind "text": a non-numeric value, v = <<>>.
Param(name, kind, v) == [param |-> name, kind |-> kind, v |-> v]

Scalar(name, x) == Param(name, "scalar", <<x>>)

Transform(name, probability, parameters, category, magnitude) ==
    [name |-> name, probability |-> probability, parameters |-> parameters,
     category |-> category, magnitude |-> magnitude]

\* magnitude None
None == -1

\* Transform.__post_init__: the ranges a constructed Transform must satisfy
TransformOk(t) ==
    /\ 0 <= t.probability /\ t.probability <= 100
    /\ (t.magnitude = None \/ (0 <= t.magnitude /\ t.magnitude <= 10))

Policy(name, domain, transforms, description, magnitude_bins, num_ops, metadata) ==
    [name |-> name, domain |-> domain, transforms |-> transforms,
     description |-> description, magnitude_bins |-> magnitude_bins,
     num_ops |-> num_ops, metadata |-> metadata]

\* Policy(name=..., domain=..., transforms=...) with the dataclass defaults
DefaultPolicy(name, domain, transforms) ==
    Policy(name, domain, transforms, "", 10, 2, {})

----------------------------------------------------------------------------
(* domains/base.py : DomainConstraint, Domain.add_constraint *)

Limit(param, lo, hi) == [param |-> param, min |-> lo, max |-> hi]

\* parameter_limits is a dict param -> (min, max), kept in insertion order;
\* <<>> stands for None (and for {}: both are falsy where the code tests it)
DomainConstraint(transform_name, level, parameter_limits) ==
    [transform_name |-> transform_name, level |-> level,
     parameter_limits |-> parameter_limits]

Forbidden(n) == DomainConstraint(n, "forbidden", <<>>)
Discouraged(n, lim) == DomainConstraint(n, "discouraged", lim)
Recommended(n, lim) == DomainConstraint(n, "recommended", lim)

\* Domain.__init__ before _setup
EmptyDomain(name) ==
    [name |-> name, constraints |-> <<>>, forbidden_categories |-> {},
     forbidden_transforms |-> {}, recommended_transforms |-> {}]

add_constraint(d, c) ==
    [d EXCEPT
        !.constraints = Append(@, c),
        !.forbidden_transforms =
            IF c.level = "forbidden" THEN @ \cup {c.transform_name} ELSE @,
        !.recommended_transforms =
            IF c.level = "recommended" THEN @ \cup {c.transform_name} ELSE @]

RECURSIVE add_constraints(_, _)
add_constraints(d, cs) ==
    IF cs = <<>> THEN d ELSE add_constraints(add_constraint(d, Head(cs)), Tail(cs))

----------------------------------------------------------------------------
(* domains/medical.py, ocr.py, satellite.py, natural.py : _setup *)

MedicalDomain ==
    LET d == add_constraints(EmptyDomain("medical"), <<
            Forbidden("ElasticTransform"), Forbidden("GridDistortion"),
            Forbidden("OpticalDistortion"), Forbidden("ColorJitter"),
            Forbidden("HueSaturationValue"), Forbidden("RGBShift"),
            Forbidden("ChannelShuffle"), Forbidden("Posterize"),
            Forbidden("Solarize"), Forbidden("CoarseDropout"),
            Forbidden("Cutout"),
            Discouraged("MotionBlur", <<>>),
            Discouraged("GaussianBlur", <<Limit("blur_limit", 300, 500)>>),
            Discouraged("Sharpen", <<>>),
            Recommended("Rotate", <<Limit("limit", -1500, 1500)>>),
            Recommended("RandomBrightnessContrast",
                <<Limit("brightness_limit", 0, 10), Limit("contrast_limit", 0, 10)>>),
            Recommended("GaussNoise", <<Limit("var_limit", 0, 2)>>),
            Recommended("RandomScale", <<Limit("scale_limit", 0, 10)>>) >>)
    IN [d EXCEPT
          !.recommended_transforms = @ \cup
              {"HorizontalFlip", "VerticalFlip", "RandomRotate90",
               "RandomBrightnessContrast", "GaussNoise"},
          !.forbidden_categories = @ \cup {"distortion"}]

OCRDomain ==
    LET d == add_constraints(EmptyDomain("ocr"), <<
            Forbidden("ElasticTransform"), Forbidden("GridDistortion"),
            Forbidden("MotionBlur"), Forbidden("Defocus"),
            Forbidden("ZoomBlur"), Forbidden("Morphological"),
            Discouraged("GaussianBlur", <<Limit("blur_limit", 300, 500)>>),
            Discouraged("MedianBlur", <<>>),
            Discouraged("Downscale", <<>>),
            Recommended("Rotate", <<Limit("limit", -1000, 1000)>>),
            Recommended("Perspective", <<Limit("scale", 2, 8)>>),
            Recommended("RandomBrightnessContrast",
                <<Limit("brightness_limit", 0, 30), Limit("contrast_limit", 0, 30)>>),
            Recommended("GaussNoise", <<Limit("var_limit", 0, 3)>>),
            Recommended("ShiftScaleRotate",
                <<Limit("shift_limit", 0, 10), Limit("scale_limit", 0, 15),
                  Limit("rotate_limit", -1000, 1000)>>) >>)
    IN [d EXCEPT
          !.recommended_transforms = @ \cup
              {"RandomBrightnessContrast", "GaussNoise", "Rotate",
               "ShiftScaleRotate", "ToGray", "CLAHE", "Sharpen"}]

SatelliteDomain ==
    LET d == add_constraints(EmptyDomain("satellite"), <<
            Forbidden("ColorJitter"), Forbidden("HueSaturationValue"),
            Forbidden("RGBShift"), Forbidden("ChannelShuffle"),
            Forbidden("ToGray"), Forbidden("ToSepia"), Forbidden("FancyPCA"),
            Discouraged("CLAHE", <<>>), Discouraged("Equalize", <<>>),
            Discouraged("Posterize", <<>>),
            Recommended("Rotate", <<Limit("limit", -18000, 18000)>>),
            Recommended("HorizontalFlip", <<>>),
            Recommended("VerticalFlip", <<>>),
            Recommended("RandomRotate90", <<>>),
            Recommended("RandomScale", <<Limit("scale_limit", 0, 50)>>),
            Recommended("ShiftScaleRotate",
                <<Limit("shift_limit", 0, 20), Limit("scale_limit", 0, 30),
                  Limit("rotate_limit", -18000, 18000)>>),
            Recommended("RandomBrightnessContrast",
                <<Limit("brightness_limit", 0, 20), Limit("contrast_limit", 0, 20)>>),
            Recommended("GaussNoise", <<Limit("var_limit", 0, 5)>>) >>)
    IN [d EXCEPT
          !.recommended_transforms = @ \cup
              {"HorizontalFlip", "VerticalFlip", "RandomRotate90", "Rotate",
               "RandomScale", "ShiftScaleRotate", "RandomBrightnessContrast",
               "GaussNoise"}]

NaturalDomain ==
    LET d == add_constraints(EmptyDomain("natural"), <<
            Discouraged("Solarize", <<>>), Discouraged("Posterize", <<>>),
            Discouraged("Superpixels", <<>>),
            Recommended("HorizontalFlip", <<>>),
            Recommended("Rotate", <<Limit("limit", -4500, 4500)>>),
            Recommended("RandomBrightnessContrast",
                <<Limit("brightness_limit", 0, 30), Limit("contrast_limit", 0, 30)>>),
            Recommended("HueSaturationValue",
                <<Limit("hue_shift_limit", 0, 3000), Limit("sat_shift_limit", 0, 4000),
                  Limit("val_shift_limit", 0, 3000)>>),
            Recommended("ColorJitter", <<>>),
            Recommended("RandomScale", <<Limit("scale_limit", 0, 30)>>),
            Recommended("ShiftScaleRotate", <<>>),
            Recommended("GaussNoise", <<>>),
            Recommended("GaussianBlur", <<>>),
            Recommended("RandomCrop", <<>>),
            Recommended("CoarseDropout", <<>>) >>)
    IN [d EXCEPT
          !.recommended_transforms = @ \cup
              {"HorizontalFlip", "Rotate", "RandomBrightnessContrast",
               "HueSaturationValue", "ColorJitter", "RandomScale",
               "ShiftScaleRotate", "GaussNoise", "GaussianBlur", "RandomCrop",
               "CoarseDropout"}]

\* domains/base.py CustomDomain._setup on the data of a YAML file: the
\* constraints go through add_constraint, then the two name lists are added.
CustomDomain(data) ==
    LET d == add_constraints(EmptyDomain(data.name), data.constraints)
    IN [d EXCEPT
          !.forbidden_transforms = @ \cup data.forbidden_transforms,
          !.recommended_transforms = @ \cup data.recommended_transforms]

\* A custom domain file: two rules on Rotate.limit, the second the tighter,
\* a forbidden name given only in the forbidden_transforms list.
LabData ==
    [name |-> "lab",
     constraints |-> <<
        Recommended("Rotate", <<Limit("limit", -1000, 1000)>>),
        Discouraged("Rotate", <<Limit("limit", -500, 500)>>),
        Forbidden("ColorJitter") >>,
     forbidden_transforms |-> {"MotionBlur"},
     recommended_transforms |-> {"HorizontalFlip"}]

\* domains/__init__.py : the registry
RegisteredDomains == {"medical", "ocr", "satellite", "natural"}

get_domain(name) ==
    CASE name = "medical" -> MedicalDomain
      [] name = "ocr" -> OCRDomain
      [] name = "satellite" -> SatelliteDomain
      [] name = "natural" -> NaturalDomain

\* every Domain object the validator is exercised with
DomainObject(key) ==
    IF key \in RegisteredDomains THEN get_domain(key) ELSE CustomDomain(LabData)

DomainKeys == RegisteredDomains \cup {"lab"}

----------------------------------------------------------------------------
(* domains/base.py : Domain.validate_transform, Domain.validate_policy *)

Error(kind, transform, param, value) ==
    [kind |-> kind, transform |-> transform, param |-> param, value |-> value]

Warning(kind, transform, detail) ==
    [kind |-> kind, transform |-> transform, detail |-> detail]

InRange(lo, v, hi) == lo <= v /\ v <= hi

HasParam(parameters, name) == \E i \in 1..Len(parameters) : parameters[i].param = name

\* transform.parameters[name] (dict keys are unique)
ParamOf(parameters, name) ==
    parameters[CHOOSE i \in 1..Len(parameters) : parameters[i].param = name]

\* (variant: only a scalar value is held against the limits)
LimitErrorsScalarOnly(t, l) ==
    IF ~HasParam(t.parameters, l.param) THEN <<>>
    ELSE LET p == ParamOf(t.parameters, l.param)
         IN IF p.kind = "scalar" /\ ~InRange(l.min, p.v[1], l.max)
            THEN <<Error("range", t.name, l.param, p.v[1])>> ELSE <<>>

\* the errors one parameter_limits entry raises on the value of its parameter:
\* every out-of-range element of a list/tuple, or the out-of-range scalar
LimitErrors(t, l) ==
    IF ~HasParam(t.parameters, l.param) THEN <<>>
    ELSE LET p == ParamOf(t.parameters, l.param)
         IN IF p.kind \in {"list", "tuple"}
            THEN Flatten([i \in 1..Len(p.v) |->
                    IF ~InRange(l.min, p.v[i], l.max)
                    THEN <<Error("range", t.name, l.param, p.v[i])>> ELSE <<>>])
            ELSE IF p.kind = "scalar"
            THEN IF ~InRange(l.min, p.v[1], l.max)
                 THEN <<Error("range", t.name, l.param, p.v[1])>> ELSE <<>>
            ELSE <<>>

\* (variant: parameter limits left to the adjuster, no error raised)
ParameterErrorsUnchecked(d, t) == <<>>

\* "Check parameter limits": every constraint of the transform's name that
\* carries parameter_limits, in constraint order
ParameterErrors(d, t) ==
    Flatten([i \in 1..Len(d.constraints) |->
        LET c == d.constraints[i]
        IN IF c.transform_name = t.name /\ c.parameter_limits # <<>>
           THEN Flatten([j \in 1..Len(c.parameter_limits) |->
                    LimitErrors(t, c.parameter_limits[j])])
           ELSE <<>>])

CategoryErrors(d, t) ==
    IF t.category \in d.forbidden_categories
    THEN <<Error("category", t.name, "", 0)>> ELSE <<>>

\* (variant: forbidden only when a FORBIDDEN-level constraint names the transform)
ForbiddenErrorsByConstraint(d, t) ==
    IF \E i \in 1..Len(d.constraints) :
          d.constraints[i].transform_name = t.name /\ d.constraints[i].level = "forbidden"
    THEN <<Error("forbidden", t.name, "", 0)>> ELSE <<>>

ForbiddenErrors(d, t) ==
    IF t.name \in d.forbidden_transforms
    THEN <<Error("forbidden", t.name, "", 0)>> ELSE <<>>

DiscouragedWarnings(d, t) ==
    Flatten([i \in 1..Len(d.constraints) |->
        LET c == d.constraints[i]
        IN IF c.transform_name = t.name /\ c.level = "discouraged"
           THEN <<Warning("discouraged", t.name, "")>> ELSE <<>>])

\* (variant: a DISCOURAGED constraint of the transform's name is an error too)
validate_transform_discouraged_invalid(d, t) ==
    Bind(CategoryErrors(d, t) \o ForbiddenErrors(d, t) \o ParameterErrors(d, t)
            \o [i \in 1..Len(DiscouragedWarnings(d, t)) |->
                    Error("discouraged", t.name, "", 0)],
         LAMBDA errors :
            [is_valid |-> errors = <<>>, errors |-> errors,
             warnings |-> DiscouragedWarnings(d, t), suggestions |-> {}])

validate_transform(d, t) ==
    Bind(CategoryErrors(d, t) \o ForbiddenErrors(d, t) \o ParameterErrors(d, t),
         LAMBDA errors :
            [is_valid |-> errors = <<>>, errors |-> errors,
             warnings |-> DiscouragedWarnings(d, t), suggestions |-> {}])

\* validate_policy: the merge of the per-transform results, and a suggestion
\* for every recommended transform the policy does not use (the code walks a
\* set: the suggestions carry no order)
validate_policy(d, policy) ==
    LET rs == [i \in 1..Len(policy.transforms) |-> validate_transform(d, policy.transforms[i])]
        used == {policy.transforms[i].name : i \in 1..Len(policy.transforms)}
    IN [is_valid |-> \A i \in 1..Len(rs) : rs[i].is_valid,
        errors |-> Flatten([i \in 1..Len(rs) |-> rs[i].errors]),
        warnings |-> Flatten([i \in 1..Len(rs) |-> rs[i].warnings]),
        suggestions |-> d.recommended_transforms \ used]

----------------------------------------------------------------------------
(* rules/validator.py : SafetyValidator *)

\* max(min_val, min(max_val, value))
Clamp(lo, hi, v) == Max2(lo, Min2(hi, v))

\* one parameter under the limit of its name: a list/tuple is clamped element
\* by element and becomes a list when an element changed
ClampParam(l, p) ==
    IF p.kind \in {"list", "tuple"}
    THEN LET clamped == [i \in 1..Len(p.v) |-> Clamp(l.min, l.max, p.v[i])]
         IN IF clamped # p.v THEN Param(p.param, "list", clamped) ELSE p
    ELSE IF p.kind = "scalar"
    THEN LET clamped == Clamp(l.min, l.max, p.v[1])
         IN IF clamped # p.v[1] THEN Param(p.param, "scalar", <<clamped>>) ELSE p
    ELSE p

\* adjusted_params after the loop over one constraint's parameter_limits
AdjustedParams(c, parameters) ==
    [i \in 1..Len(parameters) |->
        IF \E j \in 1..Len(c.parameter_limits) :
               c.parameter_limits[j].param = parameters[i].param
        THEN ClampParam(
                c.parameter_limits[CHOOSE j \in 1..Len(c.parameter_limits) :
                    c.parameter_limits[j].param = parameters[i].param],
                parameters[i])
        ELSE parameters[i]]

\* the loop of _adjust_parameters from constraint i on: the first constraint
\* of the transform's name whose limits change a value decides the result
RECURSIVE AdjustFrom(_, _, _)
AdjustFrom(d, t, i) ==
    IF i > Len(d.constraints) THEN t
    ELSE LET c == d.constraints[i]
         IN IF c.transform_name = t.name /\ c.parameter_limits # <<>>
               /\ AdjustedParams(c, t.parameters) # t.parameters
            THEN Transform(t.name, t.probability, AdjustedParams(c, t.parameters),
                           t.category, t.magnitude)
            ELSE AdjustFrom(d, t, i + 1)

_adjust_parameters(d, t) == AdjustFrom(d, t, 1)

NoResult == [kind |-> "none"]

\* SafetyResult(is_safe=True, original_policy=policy)
NewSafetyResult(policy) ==
    [kind |-> "safety", is_safe |-> TRUE, policy |-> NoResult,
     original_policy |-> policy, removed_transforms |-> <<>>,
     modified_transforms |-> <<>>, errors |-> <<>>, warnings |-> <<>>,
     suggestions |-> {}]

\* strict branch: result.removed_transforms.append(transform) and the warning
\* citing the first error
RecordRemoved(result, t, errors) ==
    [result EXCEPT
        !.removed_transforms = Append(@, t),
        !.warnings = Append(@, Warning("removed", t.name, errors[1].kind))]

\* (variant: the errors are recorded, the result stays flagged safe)
RecordErrorsKeepSafe(result, errors) ==
    [result EXCEPT !.errors = @ \o errors]

\* non-strict branch: result.errors.extend(...); result.is_safe = False
RecordErrors(result, errors) ==
    [result EXCEPT !.errors = @ \o errors, !.is_safe = FALSE]

\* error-free branch: the (original, adjusted) pair when they differ, and the
\* transform's warnings
RecordKept(result, t, adjusted, warnings) ==
    [result EXCEPT
        !.modified_transforms = IF adjusted # t THEN Append(@, <<t, adjusted>>) ELSE @,
        !.warnings = @ \o warnings]

\* one pass of the loop "for transform in policy.transforms" over transform t:
\* st = [result, validated_transforms]
ValidateStep(d, strict, st, t) ==
    Bind(validate_transform(d, t), LAMBDA domain_result :
        IF domain_result.errors # <<>>
        THEN IF strict
             THEN [result |-> RecordRemoved(st.result, t, domain_result.errors),
                   validated_transforms |-> st.validated_transforms]
             ELSE [result |-> RecordErrors(st.result, domain_result.errors),
                   validated_transforms |-> Append(st.validated_transforms, t)]
        ELSE Bind(_adjust_parameters(d, t), LAMBDA adjusted :
                [result |-> RecordKept(st.result, t, adjusted, domain_result.warnings),
                 validated_transforms |-> Append(st.validated_transforms, adjusted)]))

RECURSIVE ValidateLoop(_, _, _, _)
ValidateLoop(d, strict, st, ts) ==
    IF ts = <<>> THEN st
    ELSE ValidateLoop(d, strict, ValidateStep(d, strict, st, Head(ts)), Tail(ts))

\* (variant: the validated policy is built from name, domain and transforms alone)
ValidatedPolicyDefaults(policy, transforms) ==
    DefaultPolicy(policy.name, policy.domain, transforms)

\* "Create the validated policy": every field but transforms comes from the input
ValidatedPolicy(policy, transforms) ==
    Policy(policy.name, policy.domain, transforms, policy.description,
           policy.magnitude_bins, policy.num_ops, policy.metadata)

\* SafetyValidator(domain, strict=strict).validate(policy).  The schema
\* warnings of _validate_schema (strings only) are not part of the model; the
\* suggestions, appended to warnings by the code, are kept apart as a set.
validate(d, strict, policy) ==
    Bind(ValidateLoop(d, strict,
            [result |-> NewSafetyResult(policy), validated_transforms |-> <<>>],
            policy.transforms), LAMBDA st :
    Bind(ValidatedPolicy(policy, st.validated_transforms), LAMBDA validated :
        [st.result EXCEPT
            !.policy = validated,
            !.suggestions = validate_policy(d, validated).suggestions]))

----------------------------------------------------------------------------
(* rules/enforcement.py : RuleEnforcer.enforce_policy *)

\* (variant: success taken from the validator's is_safe flag)
EnforcementSuccessIsSafe(safety_result) == safety_result.is_safe

\* "if safety_result.policy and len(safety_result.policy.transforms) > 0"
EnforcementSuccess(safety_result) == Len(safety_result.policy.transforms) > 0

enforce_policy(d, strict, policy) ==
    Bind(validate(d, strict, policy), LAMBDA safety_result :
        [kind |-> "enforcement",
         success |-> EnforcementSuccess(safety_result),
         policy |-> IF EnforcementSuccess(safety_result)
                    THEN safety_result.policy ELSE NoResult,
         safety_result |-> safety_result,
         enforcer_notes |->
            (IF safety_result.removed_transforms # <<>>
             THEN <<[note |-> "removed", n |-> Len(safety_result.removed_transforms)]>>
             ELSE <<>>) \o
            (IF safety_result.modified_transforms # <<>>
             THEN <<[note |-> "adjusted", n |-> Len(safety_result.modified_transforms)]>>
             ELSE <<>>)])

----------------------------------------------------------------------------
(* search/evaluator.py : PolicyEvaluator                                    *)
(* Metrics are held in thousandths; the score is the weighted sum of the    *)
(* metrics with the weights in percent, so a score of 0.731 is 73100.       *)

DEFAULT_WEIGHTS ==
    [diversity |-> 30, coverage |-> 25, strength |-> 20, balance |-> 15,
     domain_fit |-> 10]

TRANSFORM_CATEGORIES ==
    [geometric |-> {"HorizontalFlip", "VerticalFlip", "Rotate", "ShiftScaleRotate",
                    "Perspective", "Affine", "RandomCrop", "RandomScale"},
     color |-> {"RandomBrightnessContrast", "ColorJitter", "HueSaturationValue",
                "RandomGamma", "RandomToneCurve", "CLAHE", "Equalize"},
     blur |-> {"GaussianBlur", "MotionBlur", "MedianBlur", "Blur"},
     noise |-> {"GaussNoise", "ISONoise", "MultiplicativeNoise"},
     dropout |-> {"CoarseDropout", "Cutout", "GridDropout"},
     distortion |-> {"ElasticTransform", "GridDistortion", "OpticalDistortion"},
     sharpness |-> {"Sharpen", "Emboss", "UnsharpMask"}]

Abs(x) == IF x < 0 THEN -x ELSE x

RECURSIVE SumSeq(_)
SumSeq(s) == IF s = <<>> THEN 0 ELSE Head(s) + SumSeq(Tail(s))

\* math.sqrt on integers: the largest r in lo..hi with r * r <= x
RECURSIVE ISqrtIn(_, _, _)
ISqrtIn(x, lo, hi) ==
    IF lo >= hi THEN lo
    ELSE LET mid == (lo + hi + 1) \div 2
         IN IF mid * mid <= x THEN ISqrtIn(x, mid, hi) ELSE ISqrtIn(x, lo, mid - 1)

\* (the root of a 32-bit number is at most 46340)
ISqrt(x) == ISqrtIn(x, 0, Min2(x, 46340))

Probabilities(policy) == [i \in 1..Len(policy.transforms) |-> policy.transforms[i].probability]

_score_diversity(policy) ==
    IF policy.transforms = <<>> THEN 0
    ELSE LET categories_used ==
                {cat \in DOMAIN TRANSFORM_CATEGORIES :
                    \E i \in 1..Len(policy.transforms) :
                        policy.transforms[i].name \in TRANSFORM_CATEGORIES[cat]}
         IN (1000 * Cardinality(categories_used)) \div Cardinality(DOMAIN TRANSFORM_CATEGORIES)

\* exp(-(n - 6)^2 / 18), tabulated on the distance of n from the optimum
_score_coverage(policy) ==
    LET dist == Abs(Len(policy.transforms) - 6)
    IN CASE dist = 0 -> 1000 [] dist = 1 -> 946 [] dist = 2 -> 801
         [] dist = 3 -> 607 [] dist = 4 -> 411 [] dist = 5 -> 249
         [] dist = 6 -> 135 [] OTHER -> 0

_score_strength(policy) ==
    IF policy.transforms = <<>> THEN 0
    ELSE Bind((10 * SumSeq(Probabilities(policy))) \div Len(policy.transforms),
              LAMBDA avg_prob :
            IF avg_prob < 200 THEN (avg_prob * 5) \div 2
            ELSE IF avg_prob > 800 THEN 1000 - ((avg_prob - 800) * 5) \div 2
            ELSE 700 + 300 - Abs(avg_prob - 500))

_score_balance(policy) ==
    IF Len(policy.transforms) < 2 THEN 500
    ELSE Bind(Probabilities(policy), LAMBDA probs :
         \* n^2 * variance, in percent squared, then the deviation
         Bind(Len(probs) * SumSeq([i \in 1..Len(probs) |-> probs[i] * probs[i]])
                - SumSeq(probs) * SumSeq(probs), LAMBDA spread :
         Bind(ISqrt(100 * spread) \div Len(probs), LAMBDA std :
            IF std < 50 THEN 500 + (std * 300) \div 50
            ELSE IF std > 300 THEN Max2(300, 1000 - (std - 300) * 5)
            ELSE 800 + 200 - (200 * Abs(std - 150)) \div 150)))

\* (variant: the count of recommended transforms is not divided by n)
_score_domain_fit_count(domain, policy) ==
    IF domain = "" \/ policy.transforms = <<>> THEN 500
    ELSE IF domain \notin RegisteredDomains THEN 500
    ELSE 500 + 500 * Cardinality({i \in 1..Len(policy.transforms) :
                policy.transforms[i].name \in get_domain(domain).recommended_transforms})

_score_domain_fit(domain, policy) ==
    IF domain = "" \/ policy.transforms = <<>> THEN 500
    ELSE IF domain \notin RegisteredDomains THEN 500
    ELSE LET n == Len(policy.transforms)
             recommended_count ==
                Cardinality({i \in 1..n :
                    policy.transforms[i].name \in get_domain(domain).recommended_transforms})
         IN 500 + (500 * recommended_count) \div n

\* PolicyEvaluator(domain=domain).evaluate(policy), no custom_eval_fn
evaluate(domain, policy) ==
    Bind([diversity |-> _score_diversity(policy),
          coverage |-> _score_coverage(policy),
          strength |-> _score_strength(policy),
          balance |-> _score_balance(policy),
          domain_fit |-> _score_domain_fit(domain, policy)], LAMBDA metrics :
        [policy_name |-> policy.name,
         score |-> SumSeq([i \in 1..5 |->
                    LET metric == <<"diversity", "coverage", "strength", "balance",
                                    "domain_fit">>[i]
                    IN DEFAULT_WEIGHTS[metric] * metrics[metric]]),
         metrics |-> metrics])

evaluate_batch(domain, policies) ==
    [i \in 1..Len(policies) |-> evaluate(domain, policies[i])]

----------------------------------------------------------------------------
(* search/sampler.py : PolicySampler                                        *)
(* self.rng is a seeded pseudo-random generator.  It is modelled as a       *)
(* linear congruential generator: its state is a number below RngModulus,   *)
(* a draw steps the state and reads the fraction state / RngModulus.  Every *)
(* operator that draws takes the generator state g and returns [v, g]: the  *)
(* value and the state after its draws, so that draws happen in call order. *)

RngModulus == 65536
RngMultiplier == 25173
RngIncrement == 13849

\* random.Random(seed)
NewRng(seed) == seed % RngModulus

NextRng(g) == (RngMultiplier * g + RngIncrement) % RngModulus

\* the drawn fraction is below percent / 100 ("rng.random() < x")
Below(g, percent) == g * 100 < percent * RngModulus

\* a number in 0..n-1 (randrange(n), and the index of choice)
RandBelow(g, n) == (g * n) \div RngModulus

\* round(rng.uniform(lo, hi), 2) on hundredths: to the nearest hundredth
RoundUniform(g, lo, hi) == lo + ((hi - lo) * g + RngModulus \div 2) \div RngModulus

rng_randint(g, a, b) ==
    LET g1 == NextRng(g) IN [v |-> a + RandBelow(g1, b - a + 1), g |-> g1]

rng_choice(g, seq) ==
    LET g1 == NextRng(g) IN [v |-> seq[RandBelow(g1, Len(seq)) + 1], g |-> g1]

rng_uniform2(g, lo, hi) ==
    LET g1 == NextRng(g) IN [v |-> RoundUniform(g1, lo, hi), g |-> g1]

\* rng.sample(population, k): k draws without replacement; each draw takes the
\* item at a random index and moves the last item of the pool into its place
RECURSIVE rng_sample(_, _, _)
rng_sample(g, pool, k) ==
    IF k = 0 THEN [v |-> <<>>, g |-> g]
    ELSE LET g1 == NextRng(g)
             n == Len(pool)
             j == RandBelow(g1, n) + 1
             left == [i \in 1..(n - 1) |-> IF i = j THEN pool[n] ELSE pool[i]]
         IN Bind(rng_sample(g1, left, k - 1), LAMBDA rest :
                [v |-> <<pool[j]>> \o rest.v, g |-> rest.g])

\* list(a_set): the order in which a set of strings is walked depends on the
\* string hash seed of the interpreter process; h picks one order
RECURSIVE SetToSeq(_)
SetToSeq(S) ==
    IF S = {} THEN <<>>
    ELSE LET x == CHOOSE x \in S : TRUE IN <<x>> \o SetToSeq(S \ {x})

ListOfSet(S, h) ==
    LET base == SetToSeq(S)
        n == Len(base)
    IN [i \in 1..n |-> base[((i - 1 + h) % n) + 1]]

TRANSFORM_POOL ==
    << "HorizontalFlip", "VerticalFlip", "Rotate", "RandomBrightnessContrast",
       "GaussNoise", "GaussianBlur", "CLAHE", "ShiftScaleRotate", "CoarseDropout",
       "RandomCrop", "RandomScale", "Perspective", "OpticalDistortion",
       "GridDistortion", "ElasticTransform", "ColorJitter", "HueSaturationValue",
       "ChannelShuffle", "MotionBlur", "MedianBlur", "Sharpen", "Emboss",
       "RandomGamma", "RandomToneCurve", "Solarize", "Posterize", "Equalize",
       "Normalize" >>

_get_random_params(g, transform_name) ==
    CASE transform_name = "Rotate" ->
            LET limit == rng_choice(g, <<1000, 1500, 2000, 3000, 4500>>)
            IN [v |-> <<Scalar("limit", limit.v)>>, g |-> limit.g]
      [] transform_name = "ShiftScaleRotate" ->
            LET shift == rng_uniform2(g, 5, 20)
                scale == rng_uniform2(shift.g, 5, 20)
                rotate == rng_choice(scale.g, <<1500, 3000, 4500>>)
            IN [v |-> <<Scalar("shift_limit", shift.v), Scalar("scale_limit", scale.v),
                        Scalar("rotate_limit", rotate.v)>>,
                g |-> rotate.g]
      [] transform_name = "RandomBrightnessContrast" ->
            LET brightness == rng_uniform2(g, 10, 30)
                contrast == rng_uniform2(brightness.g, 10, 30)
            IN [v |-> <<Scalar("brightness_limit", brightness.v),
                        Scalar("contrast_limit", contrast.v)>>,
                g |-> contrast.g]
      [] transform_name = "GaussNoise" ->
            LET var_min == rng_randint(g, 5, 20)
                more == rng_randint(var_min.g, 10, 40)
            IN [v |-> <<Param("var_limit", "tuple",
                              <<100 * var_min.v, 100 * (var_min.v + more.v)>>)>>,
                g |-> more.g]
      [] transform_name = "GaussianBlur" ->
            LET blur == rng_choice(g, <<300, 500, 700>>)
            IN [v |-> <<Scalar("blur_limit", blur.v)>>, g |-> blur.g]
      [] transform_name = "CLAHE" ->
            \* round(rng.uniform(1.0, 4.0), 1)
            LET clip == rng_uniform2(g, 10, 40)
            IN [v |-> <<Scalar("clip_limit", 10 * clip.v)>>, g |-> clip.g]
      [] transform_name = "CoarseDropout" ->
            LET holes == rng_randint(g, 4, 12)
                height == rng_randint(holes.g, 8, 32)
                width == rng_randint(height.g, 8, 32)
            IN [v |-> <<Scalar("max_holes", 100 * holes.v),
                        Scalar("max_height", 100 * height.v),
                        Scalar("max_width", 100 * width.v)>>,
                g |-> width.g]
      [] OTHER -> [v |-> <<>>, g |-> g]

\* Transform(name=..., probability=..., parameters=...): category and magnitude
\* take the dataclass defaults
NewTransform(name, probability, parameters) ==
    Transform(name, probability, parameters, "other", None)

\* "for name in selected": a probability rounded from uniform(lo, hi), then
\* the parameters
RECURSIVE DrawTransforms(_, _, _, _)
DrawTransforms(g, selected, lo, hi) ==
    IF selected = <<>> THEN [v |-> <<>>, g |-> g]
    ELSE Bind(rng_uniform2(g, lo, hi), LAMBDA prob :
         Bind(_get_random_params(prob.g, Head(selected)), LAMBDA params :
         Bind(DrawTransforms(params.g, Tail(selected), lo, hi), LAMBDA rest :
            [v |-> <<NewTransform(Head(selected), prob.v, params.v)>> \o rest.v,
             g |-> rest.g])))

NotIn(names) == LET keep(n) == n \notin names IN SelectSeq(TRANSFORM_POOL, keep)

\* the policy name is kept as its parts: f"{domain}_search_candidate_{idx}"
_generate_random_policy(g, domain, idx) ==
    Bind(NotIn(get_domain(domain).forbidden_transforms), LAMBDA valid_transforms :
    Bind(rng_randint(g, 3, 8), LAMBDA n_transforms :
    Bind(rng_sample(n_transforms.g, valid_transforms,
                    Min2(n_transforms.v, Len(valid_transforms))), LAMBDA selected :
    Bind(DrawTransforms(selected.g, selected.v, 20, 80), LAMBDA transforms :
        [v |-> DefaultPolicy(<<domain, "search_candidate", ToString(idx)>>, domain,
                             transforms.v),
         g |-> transforms.g]))))

_generate_safe_policy(g, h, domain, idx) ==
    Bind(IF get_domain(domain).recommended_transforms = {}
         THEN <<"HorizontalFlip", "Rotate", "RandomBrightnessContrast">>
         ELSE ListOfSet(get_domain(domain).recommended_transforms, h),
         LAMBDA recommended :
    Bind(rng_randint(g, 2, 5), LAMBDA drawn :
    Bind(rng_sample(drawn.g, recommended, Min2(drawn.v, Len(recommended))),
         LAMBDA selected :
    Bind(DrawTransforms(selected.g, selected.v, 30, 60), LAMBDA transforms :
        [v |-> DefaultPolicy(<<domain, "safe_candidate", ToString(idx)>>, domain,
                             transforms.v),
         g |-> transforms.g]))))

\* lines 106-114 for the candidate drawn as policy: the candidates appended
\* and the generator after it.  RuleEnforcer(domain_obj) is strict.
EnforcedOrSafe(policy, h, domain, i) ==
    Bind(enforce_policy(get_domain(domain), TRUE, policy.v), LAMBDA enforced :
        IF enforced.success
        THEN [v |-> <<enforced.policy>>, g |-> policy.g]
        ELSE Bind(_generate_safe_policy(policy.g, h, domain, i), LAMBDA safe_policy :
             Bind(enforce_policy(get_domain(domain), TRUE, safe_policy.v), LAMBDA enforced_safe :
                [v |-> IF enforced_safe.success THEN <<enforced_safe.policy>> ELSE <<>>,
                 g |-> safe_policy.g])))

\* the loop "for i in range(n)" of sample from candidate i on
RECURSIVE SampleFrom(_, _, _, _, _)
SampleFrom(g, h, domain, i, n) ==
    IF i >= n THEN [v |-> <<>>, g |-> g]
    ELSE Bind(EnforcedOrSafe(_generate_random_policy(g, domain, i), h, domain, i),
              LAMBDA here :
         Bind(SampleFrom(here.g, h, domain, i + 1, n), LAMBDA rest :
            [v |-> here.v \o rest.v, g |-> rest.g]))

\* (variant: candidates are drawn from the whole pool and are not enforced)
RECURSIVE UnenforcedFrom(_, _, _, _)
UnenforcedFrom(g, domain, i, n) ==
    IF i >= n THEN [v |-> <<>>, g |-> g]
    ELSE Bind(rng_randint(g, 3, 8), LAMBDA n_transforms :
         Bind(rng_sample(n_transforms.g, TRANSFORM_POOL, n_transforms.v), LAMBDA selected :
         Bind(DrawTransforms(selected.g, selected.v, 20, 80), LAMBDA transforms :
         Bind(UnenforcedFrom(transforms.g, domain, i + 1, n), LAMBDA rest :
            [v |-> <<DefaultPolicy(<<domain, "search_candidate", ToString(i)>>, domain,
                                   transforms.v)>> \o rest.v,
             g |-> rest.g]))))

sample_unenforced(g, h, domain, n) == UnenforcedFrom(g, domain, 0, n)

\* PolicySampler.sample(domain, n) for a registered domain
sample(g, h, domain, n) == SampleFrom(g, h, domain, 0, n)

\* Transform(name=t.name, probability=t.probability, parameters=dict(...))
CloneTransform(t) == NewTransform(t.name, t.probability, t.parameters)

Names(ts) == {ts[i].name : i \in 1..Len(ts)}

\* (variant: the perturbed probability is assigned as it is)
RECURSIVE MutateProbabilitiesUnclamped(_, _, _)
MutateProbabilitiesUnclamped(g, ts, strength) ==
    IF ts = <<>> THEN [v |-> <<>>, g |-> g]
    ELSE LET g1 == NextRng(g)
             hit == Below(g1, strength)
             g2 == IF hit THEN NextRng(g1) ELSE g1
             delta == (40 * g2) \div RngModulus - 20
             t == IF hit THEN [Head(ts) EXCEPT !.probability = @ + delta] ELSE Head(ts)
         IN Bind(MutateProbabilitiesUnclamped(g2, Tail(ts), strength), LAMBDA rest :
                [v |-> <<t>> \o rest.v, g |-> rest.g])

\* "1. Probability mutations": the loop over the cloned transforms; delta is
\* rng.uniform(-0.2, 0.2) in percent
RECURSIVE MutateProbabilities(_, _, _)
MutateProbabilities(g, ts, strength) ==
    IF ts = <<>> THEN [v |-> <<>>, g |-> g]
    ELSE LET g1 == NextRng(g)
             hit == Below(g1, strength)
             g2 == IF hit THEN NextRng(g1) ELSE g1
             delta == (40 * g2) \div RngModulus - 20
             t == IF hit
                  THEN [Head(ts) EXCEPT !.probability = Max2(10, Min2(100, @ + delta))]
                  ELSE Head(ts)
         IN Bind(MutateProbabilities(g2, Tail(ts), strength), LAMBDA rest :
                [v |-> <<t>> \o rest.v, g |-> rest.g])

\* (variant: the added name is drawn from every pool name not yet present)
MutateAddAnyName(g, d, ts, strength) ==
    LET g1 == NextRng(g)
        valid_transforms == NotIn(Names(ts))
    IN IF Below(g1, strength) /\ Len(ts) < 10 /\ valid_transforms # <<>>
       THEN Bind(rng_choice(g1, valid_transforms), LAMBDA new_name :
            Bind(rng_uniform2(new_name.g, 30, 60), LAMBDA prob :
            Bind(_get_random_params(prob.g, new_name.v), LAMBDA params :
               [v |-> Append(ts, NewTransform(new_name.v, prob.v, params.v)),
                g |-> params.g])))
       ELSE [v |-> ts, g |-> g1]

\* (variant: a transform is added whatever the number of transforms)
MutateAddUnbounded(g, d, ts, strength) ==
    LET g1 == NextRng(g)
        valid_transforms == NotIn(d.forbidden_transforms \cup Names(ts))
    IN IF Below(g1, strength) /\ valid_transforms # <<>>
       THEN Bind(rng_choice(g1, valid_transforms), LAMBDA new_name :
            Bind(rng_uniform2(new_name.g, 30, 60), LAMBDA prob :
            Bind(_get_random_params(prob.g, new_name.v), LAMBDA params :
               [v |-> Append(ts, NewTransform(new_name.v, prob.v, params.v)),
                g |-> params.g])))
       ELSE [v |-> ts, g |-> g1]

\* "2. Add transform"
MutateAdd(g, d, ts, strength) ==
    LET g1 == NextRng(g)
        valid_transforms == NotIn(d.forbidden_transforms \cup Names(ts))
    IN IF Below(g1, strength) /\ Len(ts) < 10
       THEN IF valid_transforms # <<>>
            THEN Bind(rng_choice(g1, valid_transforms), LAMBDA new_name :
                 Bind(rng_uniform2(new_name.g, 30, 60), LAMBDA prob :
                 Bind(_get_random_params(prob.g, new_name.v), LAMBDA params :
                    [v |-> Append(ts, NewTransform(new_name.v, prob.v, params.v)),
                     g |-> params.g])))
            ELSE [v |-> ts, g |-> g1]
       ELSE [v |-> ts, g |-> g1]

\* "3. Remove transform": rng.random() < strength * 0.5
MutateRemove(g, ts, strength) ==
    LET g1 == NextRng(g)
        g2 == NextRng(g1)
        idx == RandBelow(g2, Len(ts)) + 1
    IN IF g1 * 200 < strength * RngModulus /\ Len(ts) > 2
       THEN [v |-> [i \in 1..(Len(ts) - 1) |-> IF i < idx THEN ts[i] ELSE ts[i + 1]],
             g |-> g2]
       ELSE [v |-> ts, g |-> g1]

\* The Transform objects mutate works on, by address: the input's objects at
\* 1..n and, after "Clone transforms", their clones at n+1..2n.
ClonedHeap(ts) == ts \o [i \in 1..Len(ts) |-> CloneTransform(ts[i])]

\* (variant: new_transforms holds the input's own Transform objects)
InputRefs(ts) == [i \in 1..Len(ts) |-> i]

\* new_transforms as a list of addresses: the clones
CloneRefs(ts) == [i \in 1..Len(ts) |-> Len(ts) + i]

Deref(heap, refs) == [i \in 1..Len(refs) |-> heap[refs[i]]]

\* the heap after the assignments "t.probability = ..." of line 247, made
\* through the addresses refs
StoreAll(heap, refs, values) ==
    [a \in 1..Len(heap) |->
        IF \E i \in 1..Len(refs) : refs[i] = a
        THEN values[CHOOSE i \in 1..Len(refs) : refs[i] = a]
        ELSE heap[a]]

\* PolicySampler.mutate(policy, strength): f"{policy.name}_mutated".  The
\* result carries, next to the child and the rng, the input policy as the
\* caller finds it when the call has returned.
mutate(g, policy, strength) ==
    Bind(ClonedHeap(policy.transforms), LAMBDA heap :
    Bind(CloneRefs(policy.transforms), LAMBDA new_transforms :
    Bind(MutateProbabilities(g, Deref(heap, new_transforms), strength), LAMBDA probs :
    Bind(MutateAdd(probs.g, get_domain(policy.domain), probs.v, strength), LAMBDA added :
    Bind(MutateRemove(added.g, added.v, strength), LAMBDA removed :
        [v |-> DefaultPolicy(Append(policy.name, "mutated"), policy.domain, removed.v),
         g |-> removed.g,
         input |-> [policy EXCEPT !.transforms =
                       SubSeq(StoreAll(heap, new_transforms, probs.v),
                              1, Len(policy.transforms))]])))))

\* all_transforms[t.name] = t on a dict kept in insertion order
DictPut(all, t) ==
    IF t.name \in Names(all)
    THEN [i \in 1..Len(all) |-> IF all[i].name = t.name THEN t ELSE all[i]]
    ELSE Append(all, t)

RECURSIVE PutAll(_, _)
PutAll(all, ts) == IF ts = <<>> THEN all ELSE PutAll(DictPut(all, Head(ts)), Tail(ts))

\* "for t in parent2.transforms": a name already present is replaced when
\* rng.random() > 0.5, and the draw is made only for such a name
RECURSIVE PutSome(_, _, _)
PutSome(g, all, ts) ==
    IF ts = <<>> THEN [v |-> all, g |-> g]
    ELSE LET known == Head(ts).name \in Names(all)
             g1 == IF known THEN NextRng(g) ELSE g
         IN PutSome(g1,
                    IF (~known) \/ g1 * 2 > RngModulus THEN DictPut(all, Head(ts)) ELSE all,
                    Tail(ts))

\* PolicySampler.crossover(parent1, parent2): f"{domain}_crossover_child"
crossover(g, parent1, parent2) ==
    Bind(PutSome(g, PutAll(<<>>, parent1.transforms), parent2.transforms),
         LAMBDA all_transforms :
    Bind(rng_randint(all_transforms.g, Min2(3, Len(all_transforms.v)),
                     Min2(8, Len(all_transforms.v))), LAMBDA n_select :
    Bind(rng_sample(n_select.g, all_transforms.v, n_select.v), LAMBDA selected :
        [v |-> DefaultPolicy(<<parent1.domain, "crossover_child">>, parent1.domain,
                             [i \in 1..Len(selected.v) |-> CloneTransform(selected.v[i])]),
         g |-> selected.g])))

----------------------------------------------------------------------------
(* search/optimizer.py, search/result.py                                    *)

\* fractions and rates of the config are held in percent
OptimizerConfig(population_size, generations, elite_fraction, mutation_rate, mutation_strength, crossover_rate, patience, seed) ==
    [population_size |-> population_size, generations |-> generations,
     elite_fraction |-> elite_fraction, mutation_rate |-> mutation_rate,
     mutation_strength |-> mutation_strength, crossover_rate |-> crossover_rate,
     patience |-> patience, seed |-> seed]

GenerationStats(generation, best_score, avg_score, worst_score, population_size) ==
    [generation |-> generation, best_score |-> best_score, avg_score |-> avg_score,
     worst_score |-> worst_score, population_size |-> population_size,
     mutations |-> 0, crossovers |-> 0]

SearchResult(best_policy, best_score, domain, budget_used, history, all_candidates, seed) ==
    [kind |-> "search", best_policy |-> best_policy, best_score |-> best_score,
     domain |-> domain, budget_used |-> budget_used, history |-> history,
     all_candidates |-> all_candidates, seed |-> seed]

\* an exception that leaves search
Raised(error) == [kind |-> "raised", error |-> error]

\* a (policy, score) pair
Scored(policy, score) == [policy |-> policy, score |-> score]

\* (variant: an entry goes in front of the entries of its own score)
InsertDescFront(sorted, x) ==
    LET before == Cardinality({i \in 1..Len(sorted) : sorted[i].score > x.score})
    IN SubSeq(sorted, 1, before) \o <<x>> \o SubSeq(sorted, before + 1, Len(sorted))

\* sorted(..., key=score, reverse=True) is stable: an entry goes behind every
\* entry whose score is not lower
InsertDesc(sorted, x) ==
    LET before == Cardinality({i \in 1..Len(sorted) : sorted[i].score >= x.score})
    IN SubSeq(sorted, 1, before) \o <<x>> \o SubSeq(sorted, before + 1, Len(sorted))

RECURSIVE SortInto(_, _)
SortInto(sorted, pairs) ==
    IF pairs = <<>> THEN sorted ELSE SortInto(InsertDesc(sorted, Head(pairs)), Tail(pairs))

SortedDesc(pairs) == SortInto(<<>>, pairs)

\* float("-inf"): below every score
NegInf == -1

\* the locals of search after "Initialize population" (lines 109-126)
SearchLocals(pop_size, max_gens, population) ==
    [pop_size |-> pop_size, max_gens |-> max_gens, population |-> population,
     all_candidates |-> <<>>, history |-> <<>>, best_score_ever |-> NegInf,
     generations_without_improvement |-> 0, evaluations_used |-> 0,
     gen |-> 0, stats |-> NoResult, elite |-> <<>>, next_population |-> <<>>]

\* max(2, int(len(scored_pop) * elite_fraction))
EliteCount(n, elite_fraction) == Max2(2, (n * elite_fraction) \div 100)

Take(s, n) == SubSeq(s, 1, Min2(n, Len(s)))

----------------------------------------------------------------------------
(* The rule enforcer on its own: a validator is built for a domain and a    *)
(* mode, a candidate policy is validated or enforced, and the validated     *)
(* policy is validated once more by the same validator.                     *)

\* the transforms candidate policies are built from
InputTransforms ==
    { Transform("HorizontalFlip", 50, <<>>, "flip", None),
      Transform("ElasticTransform", 50, <<>>, "distortion", None),
      Transform("GaussNoise", 30, <<>>, "noise", None),
      Transform("Rotate", 50, <<Scalar("limit", 20000)>>, "rotate", None),
      Transform("Rotate", 70, <<Scalar("limit", 1000)>>, "rotate", 3),
      Transform("RandomBrightnessContrast", 50,
                <<Param("brightness_limit", "tuple", <<0, 20>>),
                  Scalar("contrast_limit", 10)>>, "color", None),
      Transform("ColorJitter", 50, <<>>, "color", None),
      Transform("GaussianBlur", 40, <<Scalar("blur_limit", 500)>>, "blur", None),
      Transform("GaussianBlur", 40, <<Scalar("blur_limit", 700)>>, "blur", None),
      Transform("Perspective", 20,
                <<Scalar("scale", 5), Param("interpolation", "text", <<>>)>>,
                "distortion", None),
      Transform("MotionBlur", 100, <<Param("blur_limit", "list", <<300, 700>>)>>,
                "blur", None) }

RECURSIVE SeqsUpTo(_, _)
SeqsUpTo(S, n) ==
    IF n = 0 THEN {<<>>}
    ELSE LET shorter == SeqsUpTo(S, n - 1)
         IN shorter \cup {Append(s, x) : s \in shorter, x \in S}

\* candidate policies: with the dataclass defaults, or with every field set
InputPolicies ==
    {DefaultPolicy("test_policy", "medical", ts) : ts \in SeqsUpTo(InputTransforms, MaxLen)}
    \cup
    {Policy("llm_policy", "natural", ts, "from chat", 5, 3, {"seed"}) :
        ts \in SeqsUpTo(InputTransforms, MaxLen)}

\* nothing is called directly
SamplerIdle ==
    sampler = NoResult /\ held = <<>> /\ outcome = NoResult /\ stage = "idle"

\* no search is under way
SearchIdle ==
    /\ config = NoResult /\ request = NoResult /\ rng = 0 /\ hashseed = 0
    /\ phase = "idle" /\ loc = NoResult /\ evaluated = <<>>
    /\ returned = NoResult /\ run = 0 /\ first = NoResult

EnforceInit ==
    /\ validator \in [domain : DomainKeys, strict : BOOLEAN]
    /\ candidate \in InputPolicies
    /\ safety = NoResult
    /\ safety2 = NoResult
    /\ enforcement = NoResult
    /\ vphase = "ready"
    /\ SearchIdle
    /\ SamplerIdle

\* result = SafetyValidator(domain, strict=strict).validate(candidate)
Validate ==
    /\ vphase = "ready"
    /\ safety' = validate(DomainObject(validator.domain), validator.strict, candidate)
    /\ vphase' = "validated"
    /\ UNCHANGED <<validator, candidate, safety2, enforcement>>
    /\ UNCHANGED svars
    /\ UNCHANGED uvars

\* validator.validate(result.policy): the validated policy is validated again
Revalidate ==
    /\ vphase = "validated"
    /\ safety2' = validate(DomainObject(validator.domain), validator.strict, safety.policy)
    /\ vphase' = "revalidated"
    /\ UNCHANGED <<validator, candidate, safety, enforcement>>
    /\ UNCHANGED svars
    /\ UNCHANGED uvars

\* RuleEnforcer(domain, strict=strict).enforce_policy(candidate)
EnforcePolicy ==
    /\ vphase = "ready"
    /\ enforcement' = enforce_policy(DomainObject(validator.domain), validator.strict, candidate)
    /\ vphase' = "enforced"
    /\ UNCHANGED <<validator, candidate, safety, safety2>>
    /\ UNCHANGED svars
    /\ UNCHANGED uvars

EnforceNext == Validate \/ Revalidate \/ EnforcePolicy

EnforceSpec == EnforceInit /\ [][EnforceNext]_vars

----------------------------------------------------------------------------
(* PolicyOptimizer(config).search(domain, budget), step by step; the search *)
(* is then repeated by a freshly constructed optimizer with the same        *)
(* config, domain and budget.                                               *)

\* the seeds, configs and requests the search is run with
Seeds == {1, 12, 42, 2944, 15175}

\* budgets 0..MaxBudget, and one budget of more than 20 evaluations
MaxBudget == 7
LargeBudget == 24

HashSeeds == {0, 1}

\* (population_size, generations, elite_fraction, patience): the defaults, and
\* settings that breed within a small budget
Tunings ==
    { <<20, 10, 20, 3>>, <<3, 10, 20, 1>>, <<4, 3, 50, 10>>, <<1, 10, 20, 3>>,
      <<3, 5, 100, 3>> }

Configs ==
    {OptimizerConfig(tn[1], tn[2], tn[3], 50, 30, 30, tn[4], seed) :
        tn \in Tunings, seed \in Seeds}

SearchDomains == {"medical", "natural", "ocr", "galaxy"}

Requests ==
    [domain : SearchDomains, budget : (0..MaxBudget) \cup {LargeBudget}]

EnforceIdle ==
    /\ validator = NoResult /\ candidate = NoResult /\ safety = NoResult
    /\ safety2 = NoResult /\ enforcement = NoResult /\ vphase = "idle"

Init ==
    /\ config \in Configs
    /\ request \in Requests
    /\ rng = NewRng(config.seed)
    /\ hashseed \in HashSeeds
    /\ phase = "ready"
    /\ loc = NoResult
    /\ evaluated = <<>>
    /\ returned = NoResult
    /\ run = 1
    /\ first = NoResult
    /\ EnforceIdle
    /\ SamplerIdle

\* lines 103-126: pop_size, max_gens and the initial population
StartSearch ==
    /\ phase = "ready"
    /\ LET pop_size == Min2(config.population_size, request.budget \div 2)
       IN IF pop_size = 0
          THEN \* max_gens = budget // pop_size
               /\ returned' = Raised("ZeroDivisionError")
               /\ phase' = "raised"
               /\ UNCHANGED <<rng, loc>>
          ELSE IF request.domain \notin RegisteredDomains
          THEN \* get_domain(domain) in sampler.sample
               /\ returned' = Raised("ValueError")
               /\ phase' = "raised"
               /\ UNCHANGED <<rng, loc>>
          ELSE Bind(sample(rng, hashseed, request.domain, pop_size), LAMBDA population :
                  /\ rng' = population.g
                  /\ loc' = SearchLocals(pop_size, request.budget \div pop_size,
                                         population.v)
                  /\ phase' = "evaluate"
                  /\ UNCHANGED returned)
    /\ UNCHANGED <<config, request, hashseed, evaluated, run, first>>
    /\ UNCHANGED evars
    /\ UNCHANGED uvars

LoopRuns == loc.gen < loc.max_gens /\ loc.evaluations_used < request.budget

\* "for gen in range(max_gens)" is exhausted, or the break at line 130
LeaveLoop ==
    /\ phase = "evaluate"
    /\ ~LoopRuns
    /\ phase' = "finish"
    /\ UNCHANGED <<config, request, rng, hashseed, loc, evaluated, returned, run, first>>
    /\ UNCHANGED evars
    /\ UNCHANGED uvars

\* lines 136-141: the (policy, score) pairs of the population
ScorePopulation(domain, population) ==
    Bind(evaluate_batch(domain, population), LAMBDA results :
        [i \in 1..Len(population) |-> Scored(population[i], results[i].score)])

\* (variant: a generation that equals the best score counts as an improvement)
RankGenerationOnTie(l, cfg, scored_pop) ==
    Bind([i \in 1..Len(scored_pop) |-> scored_pop[i].score], LAMBDA scores :
    Bind(GenerationStats(l.gen, scores[1], SumSeq(scores) \div Len(scores),
                         scores[Len(scores)], Len(l.population)), LAMBDA stats :
    Bind(IF scores[1] >= l.best_score_ever
         THEN 0 ELSE l.generations_without_improvement + 1, LAMBDA without :
    Bind(IF without >= cfg.patience THEN l.elite
         ELSE [i \in 1..Min2(EliteCount(Len(scored_pop), cfg.elite_fraction),
                             Len(scored_pop)) |-> scored_pop[i].policy], LAMBDA elite :
        [l EXCEPT
            !.stats = stats,
            !.history = Append(@, stats),
            !.best_score_ever = IF scores[1] > @ THEN scores[1] ELSE @,
            !.generations_without_improvement = without,
            !.elite = elite,
            !.next_population = IF without >= cfg.patience THEN @ ELSE elite]))))

\* (variant: the elite starts at the second of a ranked population of several)
RankGenerationBelowTop(l, cfg, scored_pop) ==
    Bind([i \in 1..Len(scored_pop) |-> scored_pop[i].score], LAMBDA scores :
    Bind(GenerationStats(l.gen, scores[1], SumSeq(scores) \div Len(scores),
                         scores[Len(scores)], Len(l.population)), LAMBDA stats :
    Bind(IF scores[1] > l.best_score_ever
         THEN 0 ELSE l.generations_without_improvement + 1, LAMBDA without :
    Bind(IF without >= cfg.patience THEN l.elite
         ELSE IF Len(scored_pop) = 1 THEN <<scored_pop[1].policy>>
         ELSE [i \in 1..Min2(EliteCount(Len(scored_pop), cfg.elite_fraction),
                             Len(scored_pop) - 1) |-> scored_pop[i + 1].policy],
         LAMBDA elite :
        [l EXCEPT
            !.stats = stats,
            !.history = Append(@, stats),
            !.best_score_ever = IF scores[1] > @ THEN scores[1] ELSE @,
            !.generations_without_improvement = without,
            !.elite = elite,
            !.next_population = IF without >= cfg.patience THEN @ ELSE elite]))))

\* lines 150-190 on the locals l and the ranked population: the statistics
\* (history takes stats.to_dict(), a copy), the improvement check, early
\* stopping, and otherwise the elite that opens the next population
RankGeneration(l, cfg, scored_pop) ==
    Bind([i \in 1..Len(scored_pop) |-> scored_pop[i].score], LAMBDA scores :
    Bind(GenerationStats(l.gen, scores[1], SumSeq(scores) \div Len(scores),
                         scores[Len(scores)], Len(l.population)), LAMBDA stats :
    Bind(IF scores[1] > l.best_score_ever
         THEN 0 ELSE l.generations_without_improvement + 1, LAMBDA without :
    Bind(IF without >= cfg.patience THEN l.elite
         ELSE [i \in 1..Min2(EliteCount(Len(scored_pop), cfg.elite_fraction),
                             Len(scored_pop)) |-> scored_pop[i].policy], LAMBDA elite :
        [l EXCEPT
            !.stats = stats,
            !.history = Append(@, stats),
            !.best_score_ever = IF scores[1] > @ THEN scores[1] ELSE @,
            !.generations_without_improvement = without,
            !.elite = elite,
            !.next_population = IF without >= cfg.patience THEN @ ELSE elite]))))

\* lines 136-190: one generation is evaluated, recorded and ranked
EvaluateGeneration ==
    /\ phase = "evaluate"
    /\ LoopRuns
    /\ Bind(ScorePopulation(request.domain, loc.population), LAMBDA pairs :
       Bind([loc EXCEPT !.evaluations_used = @ + Len(loc.population),
                        !.all_candidates = @ \o pairs], LAMBDA recorded :
          IF loc.population = <<>>
          THEN \* gen_best = scores[0] on an empty list
               /\ returned' = Raised("IndexError")
               /\ phase' = "raised"
               /\ loc' = recorded
               /\ UNCHANGED evaluated
          ELSE Bind(RankGeneration(recorded, config, SortedDesc(pairs)), LAMBDA ranked :
               /\ evaluated' = evaluated \o pairs
               /\ loc' = ranked
               /\ phase' = IF ranked.generations_without_improvement >= config.patience
                           THEN "finish" ELSE "breed"
               /\ UNCHANGED returned)))
    /\ UNCHANGED <<config, request, rng, hashseed, run, first>>
    /\ UNCHANGED evars
    /\ UNCHANGED uvars

\* the while loop at line 193 goes on
Breeding ==
    /\ phase = "breed"
    /\ Len(loc.next_population) < loc.pop_size
    /\ loc.evaluations_used < request.budget

\* "len(elite) >= 2 and rng.random() < crossover_rate"
CrossoverDrawn == Len(loc.elite) >= 2 /\ Below(NextRng(rng), config.crossover_rate)

\* lines 199-202 and 212
BreedCrossover ==
    /\ Breeding
    /\ CrossoverDrawn
    /\ Bind(rng_sample(NextRng(rng), loc.elite, 2), LAMBDA parents :
       Bind(crossover(parents.g, parents.v[1], parents.v[2]), LAMBDA child :
          /\ rng' = child.g
          /\ loc' = [loc EXCEPT !.next_population = Append(@, child.v),
                                !.stats.crossovers = @ + 1]))
    /\ UNCHANGED <<config, request, hashseed, phase, evaluated, returned, run, first>>
    /\ UNCHANGED evars
    /\ UNCHANGED uvars

\* lines 204-210 and 212
BreedMutate ==
    /\ Breeding
    /\ ~CrossoverDrawn
    /\ Bind(rng_choice(IF Len(loc.elite) >= 2 THEN NextRng(rng) ELSE rng, loc.elite),
            LAMBDA parent :
       Bind(mutate(parent.g, parent.v, config.mutation_strength), LAMBDA child :
          /\ rng' = child.g
          /\ loc' = [loc EXCEPT !.next_population = Append(@, child.v),
                                !.stats.mutations = @ + 1]))
    /\ UNCHANGED <<config, request, hashseed, phase, evaluated, returned, run, first>>
    /\ UNCHANGED evars
    /\ UNCHANGED uvars

\* line 214: population = next_population, and the next round of the for loop
NextGeneration ==
    /\ phase = "breed"
    /\ ~(Len(loc.next_population) < loc.pop_size /\ loc.evaluations_used < request.budget)
    /\ loc' = [loc EXCEPT !.population = loc.next_population, !.gen = @ + 1]
    /\ phase' = "evaluate"
    /\ UNCHANGED <<config, request, rng, hashseed, evaluated, returned, run, first>>
    /\ UNCHANGED evars
    /\ UNCHANGED uvars

\* lines 217-237: the final ranking and the SearchResult
Finish ==
    /\ phase = "finish"
    /\ Bind(SortedDesc(loc.all_candidates), LAMBDA all_candidates :
          /\ returned' = SearchResult(all_candidates[1].policy, all_candidates[1].score,
                                      request.domain, loc.evaluations_used, loc.history,
                                      Take(all_candidates, 20), config.seed)
          /\ loc' = [loc EXCEPT !.all_candidates = all_candidates])
    /\ phase' = "done"
    /\ UNCHANGED <<config, request, rng, hashseed, evaluated, run, first>>
    /\ UNCHANGED evars
    /\ UNCHANGED uvars

\* PolicyOptimizer(config).search(domain, budget) once more: a new optimizer
\* and sampler, in the same or in another interpreter process
SearchAgain ==
    /\ phase = "done"
    /\ run = 1
    /\ first' = returned
    /\ run' = 2
    /\ rng' = NewRng(config.seed)
    /\ hashseed' \in HashSeeds
    /\ phase' = "ready"
    /\ loc' = NoResult
    /\ evaluated' = <<>>
    /\ returned' = NoResult
    /\ UNCHANGED <<config, request>>
    /\ UNCHANGED evars
    /\ UNCHANGED uvars

Next ==
    \/ StartSearch \/ LeaveLoop \/ EvaluateGeneration \/ BreedCrossover
    \/ BreedMutate \/ NextGeneration \/ Finish \/ SearchAgain

SearchSpec == Init /\ [][Next]_vars

----------------------------------------------------------------------------
(* PolicySampler, PolicyEvaluator and the Transform constructor called      *)
(* directly, as the unit tests call them: a sampler is built with a seed;   *)
(* sample, mutate and crossover draw on its generator; evaluate scores a    *)
(* policy; Transform(...) builds a transform or raises.                     *)

\* sample(domain, n) is called with n in 0..MaxSample
MaxSample == 3

\* mutation strengths, in percent
Strengths == {0, 30, 100}

\* the transforms of hand-written policies
GivenTransforms ==
    { Transform("Rotate", 70, <<Scalar("limit", 1000)>>, "rotate", 3),
      Transform("MotionBlur", 100, <<Param("blur_limit", "list", <<300, 700>>)>>,
                "blur", None),
      Transform("HorizontalFlip", 50, <<>>, "flip", None),
      Transform("GaussNoise", 10, <<>>, "noise", None),
      Transform("ElasticTransform", 0, <<>>, "distortion", 10) }

\* hand-written policies of 9 and of 10 transforms, the first names of the pool
FullPolicies ==
    {DefaultPolicy(<<"full_policy">>, "medical",
                   [i \in 1..n |-> NewTransform(TRANSFORM_POOL[i], 50, <<>>)]) :
        n \in {9, 10}}

\* hand-written policies: the empty one, single transforms, repeated names,
\* and the full ones
GivenPolicies ==
    {DefaultPolicy(<<"test_policy">>, "medical", ts) :
        ts \in SeqsUpTo(GivenTransforms, MaxLen)}
    \cup
    {Policy(<<"llm_policy">>, "natural", ts, "from chat", 5, 3, {"seed"}) :
        ts \in SeqsUpTo(GivenTransforms, MaxLen)}
    \cup FullPolicies

\* domain names handed to sample
SampleDomains == RegisteredDomains \cup {"galaxy"}

\* PolicyEvaluator(domain=...): a registered name, an unknown one, or none
EvaluatorDomains == RegisteredDomains \cup {"galaxy", ""}

\* probabilities (percent) and magnitudes Transform(...) is called with
GivenProbabilities == {-10, 0, 50, 100, 101}
GivenMagnitudes == {None, -2, 0, 5, 10, 11}

\* Transform(...): the dataclass constructor followed by __post_init__
ConstructTransform(name, probability, parameters, category, magnitude) ==
    Bind(Transform(name, probability, parameters, category, magnitude), LAMBDA t :
        IF TransformOk(t) THEN t ELSE Raised("ValueError"))

\* PolicySampler(seed=seed)
PolicySampler(seed, h) == [seed |-> seed, rng |-> NewRng(seed), hashseed |-> h]

SamplerInit ==
    /\ sampler \in {PolicySampler(seed, h) : seed \in Seeds, h \in HashSeeds}
    /\ held = <<>>
    /\ outcome = NoResult
    /\ stage = "fresh"
    /\ EnforceIdle
    /\ SearchIdle

\* the policies a call is made on: hand-written ones, or the ones at hand
AtHand == IF stage = "fresh" THEN GivenPolicies ELSE Range(held)

\* sampler.sample(domain, n)
Sample ==
    /\ stage = "fresh"
    /\ \E domain \in SampleDomains, n \in 0..MaxSample :
          IF domain \notin RegisteredDomains
          THEN \* get_domain(domain) raises
               /\ outcome' = [op |-> "sample", domain |-> domain, n |-> n,
                              out |-> Raised("ValueError")]
               /\ stage' = "raised"
               /\ UNCHANGED <<sampler, held>>
          ELSE Bind(sample(sampler.rng, sampler.hashseed, domain, n), LAMBDA candidates :
               /\ outcome' = [op |-> "sample", domain |-> domain, n |-> n,
                              out |-> candidates.v]
               /\ held' = candidates.v
               /\ sampler' = [sampler EXCEPT !.rng = candidates.g]
               /\ stage' = "sampled")
    /\ UNCHANGED evars
    /\ UNCHANGED svars

\* sampler.mutate(policy, strength)
Mutate ==
    /\ stage \in {"fresh", "sampled"}
    /\ \E policy \in AtHand, strength \in Strengths :
          Bind(mutate(sampler.rng, policy, strength), LAMBDA child :
             /\ outcome' = [op |-> "mutate", policy |-> policy, strength |-> strength,
                            out |-> child.v, after |-> child.input]
             /\ held' = <<child.v>>
             /\ sampler' = [sampler EXCEPT !.rng = child.g])
    /\ stage' = "bred"
    /\ UNCHANGED evars
    /\ UNCHANGED svars

\* sampler.crossover(parent1, parent2) on sampled policies
Crossover ==
    /\ stage = "sampled"
    /\ \E parent1 \in Range(held), parent2 \in Range(held) :
          Bind(crossover(sampler.rng, parent1, parent2), LAMBDA child :
             /\ outcome' = [op |-> "crossover", parent1 |-> parent1,
                            parent2 |-> parent2, out |-> child.v]
             /\ held' = <<child.v>>
             /\ sampler' = [sampler EXCEPT !.rng = child.g])
    /\ stage' = "bred"
    /\ UNCHANGED evars
    /\ UNCHANGED svars

\* PolicyEvaluator(domain=domain).evaluate(policy)
Evaluate ==
    /\ stage \in {"fresh", "sampled", "bred"}
    /\ \E policy \in AtHand :
       \E domain \in (IF stage = "fresh" THEN EvaluatorDomains ELSE {policy.domain}) :
          outcome' = [op |-> "evaluate", domain |-> domain, policy |-> policy,
                      out |-> evaluate(domain, policy)]
    /\ stage' = "scored"
    /\ UNCHANGED <<sampler, held>>
    /\ UNCHANGED evars
    /\ UNCHANGED svars

\* Transform("Rotate", probability, magnitude=magnitude)
Construct ==
    /\ stage = "fresh"
    /\ \E probability \in GivenProbabilities, magnitude \in GivenMagnitudes :
          outcome' = [op |-> "transform", probability |-> probability,
                      magnitude |-> magnitude,
                      out |-> ConstructTransform("Rotate", probability, <<>>, "other",
                                                 magnitude)]
    /\ stage' = "built"
    /\ UNCHANGED <<sampler, held>>
    /\ UNCHANGED evars
    /\ UNCHANGED svars

SamplerNext == Sample \/ Mutate \/ Crossover \/ Evaluate \/ Construct

SamplerSpec == SamplerInit /\ [][SamplerNext]_vars

----------------------------------------------------------------------------
(* Claims on the rule enforcer, checked under EnforceSpec *)

TheDomain == DomainObject(validator.domain)

HasErrors(t) == validate_transform(TheDomain, t).errors # <<>>
NoErrors(t) == validate_transform(TheDomain, t).errors = <<>>

\* C1: no transform of a policy returned by strict validation (validate or
\* enforce_policy) has a name in the domain's forbidden_transforms.
C1_StrictOutputNotForbidden ==
    /\ (vphase \in {"validated", "revalidated"} /\ validator.strict) =>
          \A i \in 1..Len(safety.policy.transforms) :
              safety.policy.transforms[i].name \notin TheDomain.forbidden_transforms
    /\ (vphase = "enforced" /\ validator.strict /\ enforcement.success) =>
          \A i \in 1..Len(enforcement.policy.transforms) :
              enforcement.policy.transforms[i].name \notin TheDomain.forbidden_transforms

\* a strict validation that met a forbidden name and still returned transforms
C1_Witness ==
    /\ vphase = "validated" /\ validator.strict
    /\ \E i \in 1..Len(candidate.transforms) :
          candidate.transforms[i].name \in TheDomain.forbidden_transforms
    /\ safety.policy.transforms # <<>>

\* C3: strict enforcement is idempotent: validating the validated policy
\* returns the same transforms in the same order with the same parameters,
\* and removes and modifies nothing.
C3_EnforceIdempotent ==
    (vphase = "revalidated" /\ validator.strict) =>
        /\ safety2.policy.transforms = safety.policy.transforms
        /\ safety2.removed_transforms = <<>>
        /\ safety2.modified_transforms = <<>>

\* a second validation after a first one that removed one transform and kept
\* another that carries a limited parameter
C3_Witness ==
    /\ vphase = "revalidated" /\ validator.strict
    /\ safety.removed_transforms # <<>>
    /\ \E i \in 1..Len(safety.policy.transforms) :
          ParameterErrors(TheDomain, safety.policy.transforms[i]) = <<>>
          /\ \E j \in 1..Len(TheDomain.constraints) :
                /\ TheDomain.constraints[j].transform_name = safety.policy.transforms[i].name
                /\ TheDomain.constraints[j].parameter_limits # <<>>
                /\ safety.policy.transforms[i].parameters # <<>>

\* C4 (as claimed): under strict validation a transform that is not forbidden
\* but has a numeric parameter outside a matching parameter_limits bound is
\* kept with the parameter clamped, and (original, clamped) is recorded in
\* modified_transforms.
C4_OutOfRangeIsClamped ==
    (vphase = "validated" /\ validator.strict) =>
        \A i \in 1..Len(candidate.transforms) :
            LET t == candidate.transforms[i]
                clamped == _adjust_parameters(TheDomain, t)
            IN (/\ CategoryErrors(TheDomain, t) = <<>>
                /\ ForbiddenErrors(TheDomain, t) = <<>>
                /\ ParameterErrors(TheDomain, t) # <<>>)
               => /\ clamped \in Range(safety.policy.transforms)
                  /\ <<t, clamped>> \in Range(safety.modified_transforms)

\* C5 (as claimed): both flags of the enforcement result, is_safe and success,
\* hold exactly when strict mode was used and at least one transform survives.
C5_SafeIffStrictAndNonEmpty ==
    vphase = "enforced" =>
        LET survives == Len(enforcement.safety_result.policy.transforms) > 0
        IN /\ enforcement.success <=> (validator.strict /\ survives)
           /\ enforcement.safety_result.is_safe <=> (validator.strict /\ survives)

\* C5 (amended): success holds exactly when at least one transform survives,
\* in either mode, so a strict enforcement that removes every transform has
\* success false; is_safe is false exactly when the mode is non-strict and a
\* transform had validation errors (a strict result is always is_safe).
C5_FlagsOfEnforcement ==
    vphase = "enforced" =>
        /\ enforcement.success <=> Len(enforcement.safety_result.policy.transforms) > 0
        /\ enforcement.safety_result.is_safe <=>
              ~(~validator.strict /\ \E i \in 1..Len(candidate.transforms) :
                                        HasErrors(candidate.transforms[i]))
        /\ ~enforcement.success => enforcement.policy = NoResult

\* a strict enforcement that removed every transform of a non-empty policy
C5_Witness ==
    /\ vphase = "enforced" /\ validator.strict
    /\ candidate.transforms # <<>>
    /\ enforcement.safety_result.policy.transforms = <<>>
    /\ ~enforcement.success

C10_NonStrictKeepsAll ==
    (vphase = "validated" /\ ~validator.strict) =>
        /\ safety.kind = "safety"
        /\ safety.policy.transforms = candidate.transforms
        /\ safety.removed_transforms = <<>>
        /\ safety.errors =
              Flatten([i \in 1..Len(candidate.transforms) |->
                  validate_transform(TheDomain, candidate.transforms[i]).errors])
        /\ (\E i \in 1..Len(candidate.transforms) : HasErrors(candidate.transforms[i]))
              => ~safety.is_safe

\* a non-strict validation of a policy whose first transform is forbidden
C10_Witness ==
    /\ vphase = "validated" /\ ~validator.strict
    /\ Len(candidate.transforms) = 2
    /\ candidate.transforms[1].name \in TheDomain.forbidden_transforms
    /\ NoErrors(candidate.transforms[2])
    /\ safety.errors # <<>>

\* the names that have a constraint of the level in the constraint list of d
ConstrainedAt(d, level) ==
    {d.constraints[i].transform_name :
        i \in {j \in 1..Len(d.constraints) : d.constraints[j].level = level}}

\* C17 (as claimed): for every constructed domain forbidden_transforms is
\* exactly the set of names with a FORBIDDEN constraint in the constraint list
\* and recommended_transforms exactly the set of names with a RECOMMENDED one.
C17_SetsRebuiltFromConstraints ==
    /\ TheDomain.forbidden_transforms = ConstrainedAt(TheDomain, "forbidden")
    /\ TheDomain.recommended_transforms = ConstrainedAt(TheDomain, "recommended")

\* the grounds of invalidity, read off the domain's data
NameForbidden(d, t) == t.name \in d.forbidden_transforms

CategoryForbidden(d, t) == t.category \in d.forbidden_categories

\* a numeric parameter of t (a scalar, or an element of a list/tuple) lies
\* outside a parameter_limits entry of a constraint with t's name
OutsideLimits(d, t) ==
    \E i \in 1..Len(d.constraints) :
        /\ d.constraints[i].transform_name = t.name
        /\ \E j \in 1..Len(d.constraints[i].parameter_limits) :
              \E k \in 1..Len(t.parameters) :
                 /\ t.parameters[k].param = d.constraints[i].parameter_limits[j].param
                 /\ t.parameters[k].kind \in {"scalar", "list", "tuple"}
                 /\ \E m \in 1..Len(t.parameters[k].v) :
                       \/ t.parameters[k].v[m] < d.constraints[i].parameter_limits[j].min
                       \/ t.parameters[k].v[m] > d.constraints[i].parameter_limits[j].max

DiscouragedCount(d, t) ==
    Cardinality({i \in 1..Len(d.constraints) :
        d.constraints[i].transform_name = t.name /\ d.constraints[i].level = "discouraged"})

----------------------------------------------------------------------------
(* Claims on the search, checked under SearchSpec *)

\* every transform of the policy passes validate_transform of the searched domain
Sanitized(policy) ==
    \A i \in 1..Len(policy.transforms) :
        validate_transform(get_domain(request.domain), policy.transforms[i]).errors = <<>>

\* C2 (as claimed): every policy evaluated in any generation, the initial
\* population and the children of mutate and crossover alike, passes the
\* domain's validate_transform with zero errors for each transform, and so do
\* best_policy and every entry of all_candidates of the result.
C2_EvaluatedAreSanitized ==
    /\ \A k \in 1..Len(evaluated) : Sanitized(evaluated[k].policy)
    /\ phase = "done" =>
          /\ Sanitized(returned.best_policy)
          /\ \A k \in 1..Len(returned.all_candidates) :
                Sanitized(returned.all_candidates[k].policy)

\* C6 (as claimed): for every budget and known domain search returns a
\* SearchResult, and its budget_used is at most the budget.
C6_BudgetRespected ==
    (phase \in {"done", "raised"} /\ request.domain \in RegisteredDomains) =>
        /\ returned.kind = "search"
        /\ returned.budget_used <= request.budget

\* C7 (as claimed): two searches with the same seed, config, domain and
\* budget, each on a freshly constructed optimizer, return the same best_score
\* and the same best-policy transform list.
C7_SeededRunsAgree ==
    (run = 2 /\ phase = "done") =>
        /\ returned.best_score = first.best_score
        /\ returned.best_policy.transforms = first.best_policy.transforms

\* the highest score among everything evaluated
TopScore == evaluated[CHOOSE k \in 1..Len(evaluated) :
                \A j \in 1..Len(evaluated) : evaluated[j].score <= evaluated[k].score].score

\* the first evaluation that reached the highest score
FirstTop == CHOOSE k \in 1..Len(evaluated) :
                /\ evaluated[k].score = TopScore
                /\ \A j \in 1..(k - 1) : evaluated[j].score < TopScore

C15_DegeneratePopulationReturns ==
    (request.domain \in RegisteredDomains /\ loc # NoResult) =>
        /\ phase # "raised"
        /\ phase = "done" => returned.kind = "search"

\* C16 (as claimed): a search for a domain name that is not registered ends at
\* once with the registry's ValueError, before any candidate is sampled or
\* evaluated, whatever the budget.
C16_UnknownDomainFailsFast ==
    (request.domain \notin RegisteredDomains /\ phase # "ready") =>
        /\ phase = "raised"
        /\ returned = Raised("ValueError")
        /\ loc = NoResult
        /\ evaluated = <<>>

\* the highest score of a non-empty sequence of (policy, score) pairs
BestOf(pairs) ==
    pairs[CHOOSE k \in 1..Len(pairs) :
            \A j \in 1..Len(pairs) : pairs[j].score <= pairs[k].score].score

\* the best score seen before the generation under evaluation
BestSoFar == IF evaluated = <<>> THEN NegInf ELSE BestOf(evaluated)

\* a generation is evaluated in this step
GenerationEvaluated == phase = "evaluate" /\ Len(evaluated') > Len(evaluated)

\* C19: after each generation is evaluated the no-improvement counter is 0 if
\* the generation's best score is strictly greater than the best score seen so
\* far, and one more than before otherwise; the search stops right after the
\* generation in which the counter reaches config.patience: nothing is bred or
\* evaluated after it.
C19_EarlyStopping ==
    [][ /\ GenerationEvaluated =>
            /\ loc'.generations_without_improvement =
                  IF BestOf(SubSeq(evaluated', Len(evaluated) + 1, Len(evaluated')))
                        > BestSoFar
                  THEN 0 ELSE loc.generations_without_improvement + 1
            /\ phase' = IF loc'.generations_without_improvement >= config.patience
                        THEN "finish" ELSE "breed"
        /\ phase = "finish" =>
            /\ phase' = "done"
            /\ evaluated' = evaluated
            /\ rng' = rng
      ]_vars

\* the search has stopped for want of improvement: the counter is at patience
\* after several generations, with budget and generations left
C19_Witness ==
    /\ phase = "finish"
    /\ config.patience >= 1
    /\ loc.generations_without_improvement = config.patience
    /\ Len(loc.history) >= 2
    /\ loc.gen + 1 < loc.max_gens
    /\ loc.evaluations_used + loc.pop_size <= request.budget

\* C20 (as claimed): for every known domain and every budget >= 2 the search
\* runs with pop_size = min(config.population_size, budget // 2), evaluates at
\* most budget // pop_size generations, and ends only because evaluations_used
\* >= budget, because the generation index reached budget // pop_size, or
\* because the no-improvement counter reached patience.
C20_EndsOnBudgetGenerationsOrPatience ==
    (request.domain \in RegisteredDomains /\ request.budget >= 2 /\ phase # "ready") =>
        /\ loc.pop_size = Min2(config.population_size, request.budget \div 2)
        /\ Len(loc.history) <= request.budget \div loc.pop_size
        /\ phase \in {"evaluate", "breed", "finish", "done"}
        /\ phase \in {"finish", "done"} =>
              \/ loc.evaluations_used >= request.budget
              \/ loc.gen >= request.budget \div loc.pop_size
              \/ loc.generations_without_improvement >= config.patience

\* ceil(n * fraction), the fraction in percent
CeilOf(n, fraction) == (n * fraction + 99) \div 100

\* C21 (as claimed): in each generation that breeds the elite is the top
\* ceil(population_size * elite_fraction) policies of the ranked population,
\* at least 2 (and no more than there are), and every elite policy is carried
\* unmodified into the next generation's population.
C21_EliteIsTopCeil ==
    phase = "breed" =>
        /\ Len(loc.elite) =
              Min2(Max2(2, CeilOf(Len(loc.population), config.elite_fraction)),
                   Len(loc.population))
        /\ loc.elite = [i \in 1..Len(loc.elite) |->
                          SortedDesc(ScorePopulation(request.domain, loc.population))[i].policy]
        /\ SubSeq(loc.next_population, 1, Len(loc.elite)) = loc.elite

\* C22 (as claimed): the history entry of a generation records its operator
\* counts: while it breeds, its mutations and crossovers are the numbers of
\* children made by mutate and by crossover so far, which together are the
\* non-elite slots filled.
C22_HistoryCountsOperators ==
    phase = "breed" =>
        /\ loc.history[Len(loc.history)].mutations = loc.stats.mutations
        /\ loc.history[Len(loc.history)].crossovers = loc.stats.crossovers
        /\ loc.stats.mutations + loc.stats.crossovers =
              Len(loc.next_population) - Len(loc.elite)

\* C27 (as claimed): the number of generations a search executes, the length
\* of SearchResult.history, never exceeds config.generations.
C27_AtMostConfiguredGenerations ==
    phase = "done" => Len(returned.history) <= config.generations

\* the search has set up its locals
Searching == loc # NoResult

FreeOfForbidden(policy) ==
    Names(policy.transforms) \cap get_domain(request.domain).forbidden_transforms = {}

\* C29: throughout a search on a registered domain no policy of a
\* generation's population, of the elite or of the population being bred has
\* a transform whose name is in the domain's forbidden_transforms.
C29_PopulationsFreeOfForbidden ==
    Searching =>
        /\ \A i \in 1..Len(loc.population) : FreeOfForbidden(loc.population[i])
        /\ \A i \in 1..Len(loc.elite) : FreeOfForbidden(loc.elite[i])
        /\ \A i \in 1..Len(loc.next_population) : FreeOfForbidden(loc.next_population[i])
        /\ \A i \in 1..Len(evaluated) : FreeOfForbidden(evaluated[i].policy)

\* a later generation of a search on the medical domain holds a child made
\* by mutate with more transforms than 2 and a child made by crossover
C29_Witness ==
    /\ Searching /\ request.domain = "medical" /\ loc.gen >= 1
    /\ phase = "evaluate"
    /\ \E i \in 1..Len(loc.population) :
          /\ loc.population[i].name[Len(loc.population[i].name)] = "mutated"
          /\ Len(loc.population[i].transforms) > 2
    /\ \E i \in 1..Len(loc.population) :
          loc.population[i].name[Len(loc.population[i].name)] = "crossover_child"

\* C30: the best_score of the history never decreases from one generation to
\* the next, and the highest-ranked policy of a generation that breeds is
\* the first of the elite and of the next population.
C30_BestScoreNeverDecreases ==
    Searching =>
        /\ \A i \in 1..(Len(loc.history) - 1) :
              loc.history[i + 1].best_score >= loc.history[i].best_score
        /\ phase = "breed" =>
              /\ loc.next_population[1] = loc.elite[1]
              /\ evaluate(request.domain, loc.elite[1]).score
                    = loc.history[Len(loc.history)].best_score
        /\ phase = "done" =>
              \A i \in 1..(Len(returned.history) - 1) :
                 returned.history[i + 1].best_score >= returned.history[i].best_score

\* a search has recorded a generation that improved on the one before and
\* a generation that only equalled the one before
C30_Witness ==
    /\ Searching
    /\ \E i \in 1..(Len(loc.history) - 1) :
          loc.history[i + 1].best_score > loc.history[i].best_score
    /\ \E i \in 1..(Len(loc.history) - 1) :
          loc.history[i + 1].best_score = loc.history[i].best_score

----------------------------------------------------------------------------
(* Claims on the sampler, the evaluator and Transform, checked under        *)
(* SamplerSpec                                                              *)

\* sample(domain, n) has returned for a registered domain
Sampled == stage = "sampled" /\ outcome.op = "sample"

\* C11: for every registered domain, seed and n, no policy returned by
\* sample(domain, n) holds a transform whose name is in the domain's
\* forbidden_transforms.
C11_SampleAvoidsForbidden ==
    Sampled =>
        \A k \in 1..Len(outcome.out) :
            \A i \in 1..Len(outcome.out[k].transforms) :
                outcome.out[k].transforms[i].name
                    \notin get_domain(outcome.domain).forbidden_transforms

\* sample("medical", n) returned at least two policies, one of them with
\* transforms left after enforcement removed some
C11_Witness ==
    /\ Sampled
    /\ outcome.domain = "medical"
    /\ get_domain("medical").forbidden_transforms # {}
    /\ Len(outcome.out) >= 2
    /\ \E k \in 1..Len(outcome.out) : Len(outcome.out[k].transforms) \in 1..2

\* C12 (as claimed): for every registered domain and seed, sample(domain, n)
\* returns exactly n policies, each of the requested domain and with at least
\* 2 transforms.
C12_SampleReturnsNPolicies ==
    Sampled =>
        /\ Len(outcome.out) = outcome.n
        /\ \A k \in 1..Len(outcome.out) :
              /\ outcome.out[k].domain = outcome.domain
              /\ Len(outcome.out[k].transforms) >= 2

\* C13 (as claimed): mutate(policy, strength=0.0) returns the input policy
\* with every field and every transform unchanged, except for the name, which
\* gets the suffix _mutated.
C13_ZeroStrengthKeepsPolicy ==
    (stage = "bred" /\ outcome.op = "mutate" /\ outcome.strength = 0) =>
        outcome.out = [outcome.policy EXCEPT !.name = Append(@, "mutated")]

\* evaluate(policy) has returned
Evaluated == stage = "scored" /\ outcome.op = "evaluate"

\* C14: for every well-formed policy and every domain, evaluate returns a
\* score with 0.0 <= score <= 1.0, the weighted mean of metrics that each lie
\* in [0, 1]; for the empty policy diversity is 0.0 and the score is defined.
C14_ScoreInUnitInterval ==
    Evaluated =>
        /\ 0 <= outcome.out.score /\ outcome.out.score <= 100 * 1000
        /\ \A metric \in DOMAIN outcome.out.metrics :
              0 <= outcome.out.metrics[metric] /\ outcome.out.metrics[metric] <= 1000
        /\ outcome.policy.transforms = <<>> =>
              /\ outcome.out.metrics.diversity = 0
              /\ outcome.out.score = 25 * 135 + 15 * 500 + 10 * 500

\* a policy that repeats the name of a recommended transform has been
\* evaluated for a registered domain
C14_Witness ==
    /\ Evaluated
    /\ outcome.domain = "medical"
    /\ Len(outcome.policy.transforms) = 2
    /\ outcome.policy.transforms[1].name = outcome.policy.transforms[2].name
    /\ outcome.out.metrics.domain_fit = 1000

\* the ranges of Transform as the claim words them (percent for probability)
InRanges(probability, magnitude) ==
    /\ 0 <= probability /\ probability <= 100
    /\ (magnitude = None \/ (0 <= magnitude /\ magnitude <= 10))

\* C18: every Transform of a policy obtained by construction, sample, mutate,
\* crossover or enforcement has 0.0 <= probability <= 1.0 and a magnitude
\* that is None or within [0, 10]: Transform(...) outside these ranges raises
\* ValueError, and a probability that mutate perturbed lies in [0.1, 1.0].
C18_TransformsWithinRanges ==
    /\ \A k \in 1..Len(held) : \A i \in 1..Len(held[k].transforms) :
          InRanges(held[k].transforms[i].probability, held[k].transforms[i].magnitude)
    /\ (stage = "built" /\ outcome.op = "transform") =>
          IF InRanges(outcome.probability, outcome.magnitude)
          THEN /\ outcome.out.probability = outcome.probability
               /\ outcome.out.magnitude = outcome.magnitude
          ELSE outcome.out = Raised("ValueError")
    /\ (stage = "bred" /\ outcome.op = "mutate") =>
          \A i \in 1..Len(outcome.out.transforms) :
              \/ outcome.out.transforms[i].probability \in 10..100
              \/ \E j \in 1..Len(outcome.policy.transforms) :
                    /\ outcome.policy.transforms[j].name = outcome.out.transforms[i].name
                    /\ outcome.policy.transforms[j].probability =
                          outcome.out.transforms[i].probability

\* mutate at full strength has lifted a probability of 0.0 to 0.1 and has
\* left one of 1.0 in range
C18_Witness ==
    /\ stage = "bred" /\ outcome.op = "mutate" /\ outcome.strength = 100
    /\ Len(outcome.policy.transforms) = 2
    /\ Len(outcome.out.transforms) >= 2
    /\ outcome.policy.transforms[1].probability = 0
    /\ outcome.out.transforms[1].probability = 10
    /\ outcome.policy.transforms[2].probability = 100
    /\ outcome.out.transforms[2].probability \in 80..100

Mutated == stage = "bred" /\ outcome.op = "mutate"

NameSeq(ts) == [i \in 1..Len(ts) |-> ts[i].name]

Distinct(names) == \A i, j \in 1..Len(names) : names[i] = names[j] => i = j

RemoveAt(s, k) == [i \in 1..(Len(s) - 1) |-> IF i < k THEN s[i] ELSE s[i + 1]]

\* C24: the names of a mutated policy are the names of its input with at most
\* one name appended and then at most one name taken out: a name is appended
\* only to fewer than 10 transforms and is neither present nor forbidden in
\* the policy's domain, a name is taken out only of more than 2 transforms;
\* so 2 to 10 pairwise distinct names yield 2 to 10 pairwise distinct names.
C24_AtMostOneAddedAndOneRemoved ==
    Mutated =>
        /\ \E added \in {<<>>} \cup {<<n>> : n \in Range(TRANSFORM_POOL)} :
              /\ added # <<>> =>
                    /\ Len(outcome.policy.transforms) < 10
                    /\ added[1] \notin Names(outcome.policy.transforms)
                    /\ added[1] \notin get_domain(outcome.policy.domain).forbidden_transforms
              /\ \/ NameSeq(outcome.out.transforms)
                       = NameSeq(outcome.policy.transforms) \o added
                 \/ /\ Len(outcome.policy.transforms) + Len(added) > 2
                    /\ \E k \in 1..(Len(outcome.policy.transforms) + Len(added)) :
                          NameSeq(outcome.out.transforms)
                             = RemoveAt(NameSeq(outcome.policy.transforms) \o added, k)
        /\ ( /\ Len(outcome.policy.transforms) \in 2..10
             /\ Distinct(NameSeq(outcome.policy.transforms)) ) =>
                /\ Len(outcome.out.transforms) \in 2..10
                /\ Distinct(NameSeq(outcome.out.transforms))

\* a policy of 10 transforms was mutated at full strength and lost one of
\* them without gaining a name
C24_Witness ==
    /\ Mutated /\ outcome.strength = 100
    /\ Len(outcome.policy.transforms) = 10
    /\ Len(outcome.out.transforms) = 9
    /\ Names(outcome.out.transforms) \subseteq Names(outcome.policy.transforms)

\* C25 (as claimed): domain_fit is the fraction of the policy's transforms
\* whose name is recommended in the evaluator's domain, 0.0 when none is and
\* 1.0 when all are, and 0.5 when the evaluator has no domain.
C25_DomainFitIsFraction ==
    Evaluated =>
        /\ outcome.domain = "" => outcome.out.metrics.domain_fit = 500
        /\ (outcome.domain \in RegisteredDomains /\ outcome.policy.transforms # <<>>) =>
              outcome.out.metrics.domain_fit =
                 (1000 * Cardinality({i \in 1..Len(outcome.policy.transforms) :
                      outcome.policy.transforms[i].name
                         \in get_domain(outcome.domain).recommended_transforms}))
                 \div Len(outcome.policy.transforms)

============================================================================
